---- MODULE Spec2Model ----
(***************************************************************************)
(* Build caching and dependency packaging of sebs/code_package.py:         *)
(* CodePackage.__init__, query_cache, hash_directory, build() and the      *)
(* assembly / dependency-install steps that build() runs.                  *)
(*                                                                         *)
(* The model follows one benchmark (one cache key) through a sequence of   *)
(* CodePackage instances.  build() is a process with a position (pc), so   *)
(* that a raising step, and a change of the source tree by another         *)
(* process, can happen between any two of its steps.                       *)
(*                                                                         *)
(* Spec follows the builds of one benchmark.  Three smaller specifications *)
(* follow it: ZipSpec (_update_zip on an archive), HashSpec                *)
(* (hash_directory before and after a change of the directory) and ParSpec *)
(* (the builds of two benchmarks side by side).                            *)
(***************************************************************************)
EXTENDS Integers, Sequences, FiniteSets, TLC

\* ------------------------------------------------------------------ bounds
MaxBuilds == 2
MaxEdits == 1

\* ------------------------------------------------------------ basic values
\* Python's None, also the value of an attribute that has not been set.
None == [none |-> TRUE]

Languages == {"python", "nodejs"}

\* The name and deployment of the benchmark that is followed.
Name == "bench"
Deployment == "fission"

\* A path: absolute or relative, and its components.
Path(abs, parts) == [abs |-> abs, parts |-> parts]

\* os.path.join(a, b): an absolute b discards a.
Join(a, b) == IF b.abs THEN b ELSE Path(a.abs, a.parts \o b.parts)

\* self._cache_client.cache_dir
cache_dir == Path(TRUE, <<"cache">>)

\* self._output_dir = os.path.join(output_dir, f"{name}_code")
output_dir == Path(TRUE, <<"out", "bench_code">>)

\* ------------------------------------------------------------- source tree
\* The benchmark's language directory: file name -> bytes, for the files that
\* exist.  init.sh is the setup script of the language subdirectory.
SourceFile(language) == IF language = "python" THEN "function.py" ELSE "function.js"

PACKAGE_FILES(language) == IF language = "python" THEN "requirements.txt" ELSE "package.json"

TreeFiles(language) == {SourceFile(language), PACKAGE_FILES(language), "init.sh"}

Contents == {<<1>>, <<2>>}

\* glob.glob(os.path.join(directory, file_type)) on the names of the model.
GlobTable ==
    { <<"*.py", "function.py">>, <<"*.js", "function.js">>,
      <<"*.py", "other.py">>, <<"*.js", "other.js">>,
      <<"requirements.txt*", "requirements.txt">>,
      <<"package.json", "package.json">>, <<"*.json", "package.json">>,
      <<"*.sh", "init.sh">> }

Matches(file_type, f) == <<file_type, f>> \in GlobTable

\* The order in which the directory lists its entries.
DirOrder ==
    <<"function.py", "other.py", "function.js", "other.js", "requirements.txt",
      "package.json", "init.sh">>

FILES(language) ==
    IF language = "python" THEN <<"*.py", "requirements.txt*">> ELSE <<"*.js", "package.json">>

NON_LANG_FILES == <<"*.sh", "*.json">>

\* The bytes of the deployment wrappers benchmarks/wrappers/<deployment>/<language>/*.
WrapperBytes(deployment, language) == IF language = "python" THEN <<8>> ELSE <<9>>

RECURSIVE GlobBytes(_, _, _)
\* The bytes of the files of tree that match file_type, in directory order from i.
GlobBytes(tree, file_type, i) ==
    IF i > Len(DirOrder) THEN <<>>
    ELSE (IF DirOrder[i] \in DOMAIN tree /\ Matches(file_type, DirOrder[i])
          THEN tree[DirOrder[i]] ELSE <<>>)
         \o GlobBytes(tree, file_type, i + 1)

RECURSIVE PatternBytes(_, _, _)
PatternBytes(tree, selected_files, j) ==
    IF j > Len(selected_files) THEN <<>>
    ELSE GlobBytes(tree, selected_files[j], 1) \o PatternBytes(tree, selected_files, j + 1)

\* hashlib.md5 over the bytes fed to update(): the digest is modelled as
\* collision-free, i.e. by the byte string itself.
md5(bytes) == [md5 |-> bytes]

\* The workflow definition, one level above the directory, hashed if it exists.
Definition == "../definition.json"

DefinitionBytes(tree) == IF Definition \in DOMAIN tree THEN tree[Definition] ELSE <<>>

hash_directory(tree, deployment, language) ==
    md5(PatternBytes(tree, FILES(language) \o NON_LANG_FILES, 1)
        \o DefinitionBytes(tree)
        \o WrapperBytes(deployment, language))

\* --------------------------------------------------------------- the cache
\* The cache of sebs/cache.py, consumed through get_code_package,
\* add_code_package and update_code_package: a set of entries, each with the
\* key (deployment, benchmark, language) it was stored under.
CacheKey(language) == <<Deployment, Name, language>>

Entry(key, hash, size, location) ==
    [key |-> key, hash |-> hash, size |-> size, location |-> location]

EntriesOf(c, key) == {e \in c : e.key = key}

get_code_package(c, key) ==
    IF EntriesOf(c, key) = {} THEN None
    ELSE LET e == CHOOSE x \in EntriesOf(c, key) : TRUE
         IN  [hash |-> e.hash, size |-> e.size, location |-> e.location]

add_code_package(c, key, hash, size, location) ==
    c \cup {Entry(key, hash, size, location)}

update_code_package(c, key, hash, size, location) ==
    (c \ EntriesOf(c, key)) \cup {Entry(key, hash, size, location)}

\* The value of a field that an entry lacks.
Missing == [missing |-> TRUE]

\* The location the cache records for a package: the code_location it reads
\* from the package it is handed.
CachedLocation(location) == location

\* ------------------------------------------------------------------- state
VARIABLES
    srcTree,          \* the benchmark's language directory (and ../init.sh)
    edits,            \* changes made to srcTree so far
    cache,            \* the entries of the cache
    outDir,           \* the scratch directory: None, or file name -> bytes
    imageLocal,       \* the build image is present locally
    containers,       \* detached build containers that are running
    language,         \* config.runtime.language
    pc,               \* position of the CodePackage: in __init__, idle, or in build()
    update_code,      \* config.update_code, the force-rebuild flag
    copy_flag,        \* check_flag("docker_copy_build_files"), the archive strategy
    is_workflow,      \* the argument of the running build()
    _payload,
    _is_cached,
    _is_cached_valid,
    _code_size,
    _code_location,
    _hash_value,
    setup,            \* how the setup scripts of the running build() ended
    exit_code,        \* the install script's exit status in the running build()
    builds,           \* build() calls so far
    fresh,            \* build() has not been called on this CodePackage
    trace,            \* what the running (or last) build() call did, in order
    startEdits,       \* the value of edits when that build() call began
    startCache,       \* the cache when the running build() call began
    ret,              \* what the last build() call returned or raised
    lastRebuild       \* the last rebuild this CodePackage completed

envVars == <<srcTree, edits, cache, outDir, imageLocal, containers, language>>

pkgVars == <<update_code, copy_flag, is_workflow, _payload, _is_cached, _is_cached_valid,
             _code_size, _code_location, _hash_value, setup, exit_code>>

histVars == <<builds, fresh, trace, startEdits, startCache, ret, lastRebuild>>

\* The state of the three smaller developments below, each with its own
\* specification: the patch of a zip archive (_update_zip), hash_directory on
\* a changing tree, and two builds that run side by side.
VARIABLES
    archive,          \* the zip archive: its entries [filename, data], in order
    original,         \* the archive before the last _update_zip, or None
    patched,          \* the [filename, data] of the last _update_zip, or None
    hashedDir,        \* the directory handed to hash_directory
    changed,          \* the last change of hashedDir: its kind and the directory before
    digest,           \* hash_directory of hashedDir, and of the directory before
    bpc,              \* benchmark name -> position of its build
    accesses,         \* benchmark name -> the [path, mode] its build has touched
    cacheKeys,        \* benchmark name -> the cache keys its build has used
    strategy          \* benchmark name -> docker_copy_build_files of its build

zipVars == <<archive, original, patched>>

hashVars == <<hashedDir, changed, digest>>

parVars == <<bpc, accesses, cacheKeys, strategy>>

auxVars == <<zipVars, hashVars, parVars>>

buildVars == <<envVars, pkgVars, histVars, pc>>

vars == <<buildVars, auxVars>>

\* A development that is not the one being run stays in this state.
ZipAtRest == archive = <<>> /\ original = None /\ patched = None

HashAtRest == hashedDir = <<>> /\ changed = None /\ digest = None

ParAtRest == bpc = <<>> /\ accesses = <<>> /\ cacheKeys = <<>> /\ strategy = <<>>

\* The init.sh of the benchmark root, one level above the language directory.
RootInit == "../init.sh"

\* The source trees a run may start from: the source file, with or without
\* the dependency manifest and the setup scripts.
InitialTrees(lang) ==
    { [f \in S |-> <<1>>] :
        S \in { {SourceFile(lang)},
                {SourceFile(lang), PACKAGE_FILES(lang), "init.sh"},
                {SourceFile(lang), PACKAGE_FILES(lang), RootInit} } }

OtherLanguage(lang) == IF lang = "python" THEN "nodejs" ELSE "python"

\* An entry of another key, which no operation on this package may touch.
OtherEntry(lang) ==
    Entry(CacheKey(OtherLanguage(lang)), md5(<<0>>), 1, Path(FALSE, <<"other">>))

\* The cache a run may start from: no entry for the key, an entry whose hash
\* is the hash of the initial tree, an entry with another hash, or a malformed
\* entry, one without the hash field.
InitialCaches(lang, tree) ==
    { {OtherEntry(lang)} \cup c :
        c \in { {},
                {Entry(CacheKey(lang), hash_directory(tree, Deployment, lang), 1,
                       Path(FALSE, <<Deployment, lang, "code">>))},
                {Entry(CacheKey(lang), md5(<<0>>), 1,
                       Path(FALSE, <<Deployment, lang, "code">>))},
                {Entry(CacheKey(lang), Missing, 1,
                       Path(FALSE, <<Deployment, lang, "code">>))} } }

Init ==
    /\ language \in Languages
    /\ srcTree \in InitialTrees(language)
    /\ edits = 0
    /\ cache \in InitialCaches(language, srcTree)
    /\ outDir = None
    /\ imageLocal = FALSE
    /\ containers = 0
    /\ pc = "none"
    /\ update_code = FALSE
    /\ copy_flag \in BOOLEAN
    /\ is_workflow = FALSE
    /\ _payload = None
    /\ _is_cached = FALSE
    /\ _is_cached_valid = FALSE
    /\ _code_size = None
    /\ _code_location = None
    /\ _hash_value = None
    /\ setup = "none"
    /\ exit_code = "none"
    /\ builds = 0
    /\ fresh = TRUE
    /\ trace = <<>>
    /\ startEdits = 0
    /\ startCache = {}
    /\ ret = None
    /\ lastRebuild = None
    /\ ZipAtRest /\ HashAtRest /\ ParAtRest

\* ------------------------------------------------- the hash and the cache query
\* The hash property: recomputed from the tree on every read.
hash(tree, lang) == hash_directory(tree, Deployment, lang)

\* A query_cache that takes every entry it finds for valid.
query_cache_no_compare(c, tree, lang, old) ==
    LET p == get_code_package(c, CacheKey(lang))
    IN  IF p # None
        THEN [payload |-> p, hash_value |-> hash(tree, lang), code_size |-> p.size,
              is_cached |-> TRUE, is_cached_valid |-> TRUE, raises |-> p.hash = Missing]
        ELSE [payload |-> p, hash_value |-> old.hash_value, code_size |-> old.code_size,
              is_cached |-> FALSE, is_cached_valid |-> FALSE, raises |-> FALSE]

\* A query_cache that takes an entry with another hash for no entry.
query_cache_stale_is_miss(c, tree, lang, old) ==
    LET p == get_code_package(c, CacheKey(lang))
    IN  IF p # None
        THEN [payload |-> p, hash_value |-> hash(tree, lang), code_size |-> p.size,
              is_cached |-> (hash(tree, lang) = p.hash),
              is_cached_valid |-> (hash(tree, lang) = p.hash), raises |-> p.hash = Missing]
        ELSE [payload |-> p, hash_value |-> old.hash_value, code_size |-> old.code_size,
              is_cached |-> FALSE, is_cached_valid |-> FALSE, raises |-> FALSE]

\* A query_cache that does not set is_cached for an entry it finds.
query_cache_forgets_cached(c, tree, lang, old) ==
    LET p == get_code_package(c, CacheKey(lang))
    IN  IF p # None
        THEN [payload |-> p, hash_value |-> hash(tree, lang), code_size |-> p.size,
              is_cached |-> old.is_cached,
              is_cached_valid |-> (hash(tree, lang) = p.hash), raises |-> p.hash = Missing]
        ELSE [payload |-> p, hash_value |-> old.hash_value, code_size |-> old.code_size,
              is_cached |-> FALSE, is_cached_valid |-> FALSE, raises |-> FALSE]

\* query_cache: the attributes it leaves, given the attributes before (old).
\* With a payload it reads the hash property and then payload["hash"], which
\* raises KeyError for a payload without that field; the attributes assigned
\* after that line keep their values.
query_cache(c, tree, lang, old) ==
    LET p == get_code_package(c, CacheKey(lang))
    IN  IF p # None /\ p.hash = Missing
        THEN [payload |-> p, hash_value |-> hash(tree, lang), code_size |-> old.code_size,
              is_cached |-> old.is_cached, is_cached_valid |-> old.is_cached_valid,
              raises |-> TRUE]
        ELSE IF p # None
        THEN [payload |-> p, hash_value |-> hash(tree, lang), code_size |-> p.size,
              is_cached |-> TRUE, is_cached_valid |-> (hash(tree, lang) = p.hash),
              raises |-> FALSE]
        ELSE [payload |-> p, hash_value |-> old.hash_value, code_size |-> old.code_size,
              is_cached |-> FALSE, is_cached_valid |-> FALSE, raises |-> FALSE]

\* A code_location that always answers with the attribute.
code_location_attribute(payload, location) == location

\* The code_location property.
code_location(payload, location) ==
    IF payload # None THEN Join(cache_dir, payload.location) ELSE location

\* The files of the tree that change during a run.
EditedFiles(lang) == {SourceFile(lang)}

\* The positions at which the next step of the CodePackage reads the source
\* tree: the cache query of __init__, the cached return or the start of a
\* rebuild, copy_code, and the three reads of the hash property in build().
ReadsTree == {"none", "idle", "copy_code", "deployment_build_step", "cache_write", "query_cache"}

\* A change of one file of the source tree by its owner.  The change may come
\* at any time; one that comes at another position than these is seen by the
\* CodePackage exactly as one that comes at the next of these positions.
EditSource ==
    /\ UNCHANGED auxVars
    /\ edits < MaxEdits
    /\ pc \in ReadsTree
    /\ \E f \in EditedFiles(language) : \E b \in Contents \ {srcTree[f]} :
          srcTree' = [srcTree EXCEPT ![f] = b]
    /\ edits' = edits + 1
    /\ UNCHANGED <<cache, outDir, imageLocal, containers, language>>
    /\ UNCHANGED <<pkgVars, histVars, pc>>

\* CodePackage.__init__ up to and including query_cache(): the first
\* CodePackage, or one that replaces a CodePackage on which build() was called.
\* An error raised by query_cache leaves __init__ (position "init_error"):
\* there is no CodePackage to call build() on.
Construct ==
    /\ UNCHANGED auxVars
    /\ pc = "none" \/ (pc = "idle" /\ ~fresh /\ builds < MaxBuilds)
    /\ fresh' = TRUE
    /\ update_code' \in BOOLEAN
    /\ LET q == query_cache(cache, srcTree, language,
                            [hash_value |-> None, code_size |-> None,
                             is_cached |-> FALSE, is_cached_valid |-> FALSE])
       IN  /\ _payload' = q.payload
           /\ _hash_value' = q.hash_value
           /\ _code_size' = q.code_size
           /\ _is_cached' = q.is_cached
           /\ _is_cached_valid' = q.is_cached_valid
           /\ pc' = IF q.raises THEN "init_error" ELSE "init_flag"
    /\ _code_location' = None
    /\ lastRebuild' = None
    /\ UNCHANGED <<envVars, copy_flag, is_workflow, setup, exit_code, builds, trace,
                   startEdits, startCache, ret>>

\* CodePackage.__init__: if config.update_code: self._is_cached_valid = False.
ConstructFlag ==
    /\ UNCHANGED auxVars
    /\ pc = "init_flag"
    /\ _is_cached_valid' = IF update_code THEN FALSE ELSE _is_cached_valid
    /\ pc' = "idle"
    /\ UNCHANGED <<envVars, histVars>>
    /\ UNCHANGED <<update_code, copy_flag, is_workflow, _payload, _is_cached, _code_size,
                   _code_location, _hash_value, setup, exit_code>>

\* ----------------------------------------------------------------- build()
\* What build() hands back: a returned pair, or an error raised at a step.
\* edits0 is the value of edits when the call began.
Returned(rebuilt, location, edits0) ==
    [kind |-> "return", rebuilt |-> rebuilt, location |-> location, edits0 |-> edits0]

\* error is the class of the error that reaches the caller; reported tells
\* whether install_dependencies logged the mount volumes before the error
\* left it.
Raised(edits0, error, reported) ==
    [kind |-> "raise", edits0 |-> edits0, error |-> error, reported |-> reported]

\* except docker.errors.ContainerError: the one error that install_dependencies
\* catches, logs with "Docker mount volumes", and raises again.
Reports(error) == error = "ContainerError"

\* The class of the error raised at a step: docker's ContainerError, or
\* another error (APIError, RuntimeError, an error of the file system).
ErrorClass(step) == IF step = "ContainerError" THEN "ContainerError" ELSE "other"

\* The running build() call does step and goes on to position next.  The
\* trace lists the calls made by build() itself; the steps inside
\* install_dependencies go under its one entry (step = "").
Goes(step, next) ==
    /\ trace' = IF step = "" THEN trace ELSE Append(trace, step)
    /\ pc' = next
    /\ UNCHANGED <<builds, fresh, startEdits, startCache, ret, lastRebuild>>

\* The running build() call raises at step: the error reaches the caller,
\* and the locals of the call are gone.
Raises(step) ==
    /\ trace' = <<>>
    /\ pc' = "idle"
    /\ ret' = Raised(startEdits, ErrorClass(step), Reports(step))
    /\ is_workflow' = FALSE
    /\ setup' = "none"
    /\ exit_code' = "none"
    /\ UNCHANGED <<update_code, copy_flag, _payload, _is_cached, _is_cached_valid,
                   _code_size, _code_location, _hash_value>>
    /\ startCache' = {}
    /\ UNCHANGED <<builds, fresh, startEdits, lastRebuild>>

\* The attributes of the CodePackage and the locals of build() stay as they are.
Keeps == UNCHANGED pkgVars

\* A build() that takes the cached return when the package is not valid.
BuildSkips_inverted(cached, valid) == cached /\ ~valid

\* A build() that takes the cached return whenever there is a cache entry.
BuildSkips_cached(cached, valid) == cached

\* Skip build if files are up to date and user didn't enforce rebuild.
BuildSkips(cached, valid) == cached /\ valid

\* A start of a rebuild that leaves an existing scratch directory as it is.
rmtree_makedirs_keeps(dir) == IF dir = None THEN <<>> ELSE dir

\* if os.path.exists(self._output_dir): shutil.rmtree(self._output_dir), then
\* os.makedirs(self._output_dir): the scratch directory afterwards, given the
\* directory before (None if there was none).
rmtree_makedirs(dir) == <<>>

\* build(), first part: the cached return, or the start of a rebuild with
\* the payload cleared and the scratch directory deleted and recreated; the
\* running call has handed nothing back yet.
BuildStart ==
    /\ UNCHANGED auxVars
    /\ pc = "idle"
    /\ builds < MaxBuilds
    /\ builds' = builds + 1
    /\ startEdits' = edits
    /\ fresh' = FALSE
    /\ UNCHANGED lastRebuild
    /\ UNCHANGED <<srcTree, edits, cache, imageLocal, containers, language>>
    /\ UNCHANGED <<update_code, copy_flag, _is_cached, _is_cached_valid, _code_size,
                   _code_location, _hash_value, setup, exit_code>>
    /\ IF BuildSkips(_is_cached, _is_cached_valid)
       THEN /\ ret' = Returned(FALSE, code_location(_payload, _code_location), edits)
            /\ pc' = "idle"
            /\ UNCHANGED <<_payload, outDir, is_workflow, trace, startCache>>
       ELSE /\ \E workflow \in BOOLEAN : is_workflow' = workflow
            /\ trace' = <<"rmtree_makedirs">>
            /\ startCache' = cache
            /\ _payload' = None
            /\ outDir' = rmtree_makedirs(outDir)
            /\ pc' = "copy_code"
            /\ ret' = None

\* The files of the scratch directory dir, with file f holding bytes b.
Put(dir, f, b) == [g \in DOMAIN dir \cup {f} |-> IF g = f THEN b ELSE dir[g]]

\* get_code_files(include_config=True): the patterns copied by copy_code.
CodeFilePatterns(lang) ==
    IF lang = "python" THEN {"*.py", "requirements.txt*", "*.json"}
    ELSE {"*.js", "package.json", "*.json"}

get_code_files(tree, lang) ==
    {f \in DOMAIN tree : \E file_type \in CodeFilePatterns(lang) : Matches(file_type, f)}

\* copy_code(self._output_dir)
CopyCode ==
    /\ UNCHANGED auxVars
    /\ pc = "copy_code"
    /\ outDir' = [f \in DOMAIN outDir \cup get_code_files(srcTree, language) |->
                    IF f \in get_code_files(srcTree, language) THEN srcTree[f] ELSE outDir[f]]
    /\ Goes("copy_code", "add_benchmark_data")
    /\ Keeps
    /\ UNCHANGED <<srcTree, edits, cache, imageLocal, containers, language>>

\* The init.sh scripts add_benchmark_data finds: at the benchmark root and in
\* the language subdirectory.
SetupScripts(tree) == {f \in {RootInit, "init.sh"} : f \in DOMAIN tree}

\* How the scripts ended, given the exit status rc of each.
SetupStatus(rc) == IF \E f \in DOMAIN rc : rc[f] # 0 THEN "nonzero" ELSE "ok"

\* What add_benchmark_data does when the scripts ended with status: it logs
\* the output.  subprocess.run is called without check=True, so that it
\* returns whatever the exit status.
SetupAborts(status) == FALSE

\* add_benchmark_data(self._output_dir): every script found runs, with exit
\* status rc[script].  What a script writes to standard error is captured with
\* its output (stderr=subprocess.STDOUT) and logged; it changes nothing else.
AddBenchmarkData ==
    /\ UNCHANGED auxVars
    /\ pc = "add_benchmark_data"
    /\ \E rc \in [SetupScripts(srcTree) -> {0, 1}] :
          /\ outDir' = IF \E f \in DOMAIN rc : rc[f] = 0
                       THEN Put(outDir, "data", <<5>>) ELSE outDir
          /\ IF SetupAborts(SetupStatus(rc))
             THEN Raises("add_benchmark_data")
             ELSE /\ Goes("add_benchmark_data", "add_deployment_files")
                  /\ setup' = SetupStatus(rc)
                  /\ UNCHANGED <<update_code, copy_flag, is_workflow, _payload, _is_cached,
                                 _is_cached_valid, _code_size, _code_location, _hash_value,
                                 exit_code>>
    /\ UNCHANGED <<srcTree, edits, cache, imageLocal, containers, language>>

\* self._system_config.deployment_files(deployment, language): the wrapper
\* files of the deployment, in the order they are copied.
deployment_files(lang) ==
    IF lang = "python" THEN <<"handler_function.py", "handler_workflow.py", "storage.py">>
    ELSE <<"handler.js", "storage.js">>

Range(seq) == {seq[i] : i \in DOMAIN seq}

\* The scratch directory with every wrapper file copied into it.
WithHandlers(dir, lang) ==
    [f \in DOMAIN dir \cup Range(deployment_files(lang)) |->
        IF f \in Range(deployment_files(lang)) THEN WrapperBytes(Deployment, lang) ELSE dir[f]]

\* A rename that is not followed by the removal of the other variant.
RenameRemove_keeps(dir, src, dst, gone) ==
    [f \in ((DOMAIN dir \cup {dst}) \ {src}) |-> IF f = dst THEN dir[src] ELSE dir[f]]

\* os.rename(src, dst) followed by os.remove(gone), both files existing.
RenameRemove(dir, src, dst, gone) ==
    [f \in ((DOMAIN dir \cup {dst}) \ {src, gone}) |-> IF f = dst THEN dir[src] ELSE dir[f]]

\* add_deployment_files(self._output_dir, is_workflow)
AddDeploymentFiles ==
    /\ UNCHANGED auxVars
    /\ pc = "add_deployment_files"
    /\ LET copied == WithHandlers(outDir, language)
           kept == IF is_workflow THEN "handler_workflow.py" ELSE "handler_function.py"
           gone == IF is_workflow THEN "handler_function.py" ELSE "handler_workflow.py"
       IN  IF language # "python"
           THEN /\ outDir' = copied
                /\ Goes("add_deployment_files", "add_deployment_package")
                /\ Keeps
           ELSE IF {kept, gone} \subseteq DOMAIN copied
           THEN /\ outDir' = RenameRemove(copied, kept, "handler.py", gone)
                /\ Goes("add_deployment_files", "add_deployment_package")
                /\ Keeps
           ELSE /\ outDir' = copied
                /\ Raises("add_deployment_files")
    /\ UNCHANGED <<srcTree, edits, cache, imageLocal, containers, language>>

\* self._system_config.deployment_packages(deployment, language): the bytes
\* that the deployment's packages add to the dependency manifest; none for
\* python, one package for nodejs.
deployment_packages(lang) == IF lang = "python" THEN <<>> ELSE <<7>>

\* add_deployment_package(self._output_dir).  Python appends to
\* requirements.txt, creating it; nodejs reads package.json and rewrites it.
\* Neither touches the manifest when the deployment has no packages.
AddDeploymentPackage ==
    /\ UNCHANGED auxVars
    /\ pc = "add_deployment_package"
    /\ LET manifest == PACKAGE_FILES(language)
           packages == deployment_packages(language)
       IN  IF Len(packages) = 0
           THEN /\ outDir' = outDir
                /\ Goes("add_deployment_package", "install_dependencies")
                /\ Keeps
           ELSE IF language = "python"
           THEN /\ outDir' = Put(outDir, manifest,
                                 (IF manifest \in DOMAIN outDir THEN outDir[manifest]
                                  ELSE <<>>) \o packages)
                /\ Goes("add_deployment_package", "install_dependencies")
                /\ Keeps
           ELSE IF manifest \in DOMAIN outDir
           THEN /\ outDir' = Put(outDir, manifest, outDir[manifest] \o packages)
                /\ Goes("add_deployment_package", "install_dependencies")
                /\ Keeps
           ELSE /\ outDir' = outDir
                /\ Raises("add_deployment_package")
    /\ UNCHANGED <<srcTree, edits, cache, imageLocal, containers, language>>

\* ------------------------------------------------- install_dependencies
\* An image that images.get does not find locally is pulled.
Pulls_always(local) == TRUE

\* images.get raises ImageNotFound exactly when the image is not present
\* locally, and only then is images.pull called.
Pulls(local) == ~local

\* install_dependencies, first part: the build image.  build tells whether
\* "build" is among the docker image types of (deployment, language); an
\* image that is not found locally is pulled once, and pulled tells whether
\* that pull succeeded; the trace records a pull that succeeded.
InstallImage ==
    /\ UNCHANGED auxVars
    /\ pc = "install_dependencies"
    /\ \E build \in BOOLEAN, pulled \in BOOLEAN :
         IF ~build
         THEN /\ imageLocal' = imageLocal
              /\ Goes("install_dependencies", "deployment_build_step")
              /\ Keeps
         ELSE IF ~Pulls(imageLocal)
         THEN /\ imageLocal' = imageLocal
              /\ Goes("install_dependencies", "install_run")
              /\ Keeps
         ELSE IF pulled
         THEN /\ imageLocal' = TRUE
              /\ trace' = trace \o <<"install_dependencies", "pull">>
              /\ pc' = "install_run"
              /\ UNCHANGED <<builds, fresh, startEdits, startCache, ret, lastRebuild>>
              /\ Keeps
         ELSE /\ imageLocal' = imageLocal
              /\ Raises("pull")
    /\ UNCHANGED <<srcTree, edits, cache, outDir, containers, language>>

\* What the install script leaves in the function directory.
DepsBytes == <<6>>

\* install_dependencies, second part: nothing to do without a manifest in the
\* scratch directory; else the mount strategy runs the container to its end
\* (containers.run raises ContainerError on a non-zero exit; the handler logs
\* and re-raises it), and the archive strategy starts a detached container.
InstallRun ==
    /\ UNCHANGED auxVars
    /\ pc = "install_run"
    /\ IF PACKAGE_FILES(language) \notin DOMAIN outDir
       THEN /\ Goes("", "deployment_build_step")
            /\ Keeps
            /\ UNCHANGED <<outDir, containers>>
       ELSE IF ~copy_flag
       THEN \E outcome \in {"ok", "ContainerError", "APIError"} :
              IF outcome = "ok"
              THEN /\ outDir' = Put(outDir, "deps", DepsBytes)
                   /\ Goes("", "deployment_build_step")
                   /\ Keeps
                   /\ UNCHANGED containers
              ELSE /\ Raises(outcome)
                   /\ UNCHANGED <<outDir, containers>>
       ELSE \E ok \in BOOLEAN :
              IF ok
              THEN /\ containers' = containers + 1
                   /\ Goes("", "put_archive")
                   /\ Keeps
                   /\ UNCHANGED outDir
              ELSE /\ Raises("APIError")
                   /\ UNCHANGED <<outDir, containers>>
    /\ UNCHANGED <<srcTree, edits, cache, imageLocal, language>>

\* Archive strategy: pack the scratch directory and container.put_archive.
PutArchive ==
    /\ UNCHANGED auxVars
    /\ pc = "put_archive"
    /\ \E ok \in BOOLEAN :
         IF ok THEN Goes("", "exec_run") /\ Keeps ELSE Raises("put_archive")
    /\ UNCHANGED envVars

\* Archive strategy: exit_code, stdout = container.exec_run(installer.sh).
\* A non-zero exit status is returned, not raised.
ExecRun ==
    /\ UNCHANGED auxVars
    /\ pc = "exec_run"
    /\ \E ok \in BOOLEAN, rc \in {"zero", "nonzero"} :
         IF ok
         THEN /\ exit_code' = rc
              /\ Goes("", "get_archive")
              /\ UNCHANGED <<update_code, copy_flag, is_workflow, _payload, _is_cached,
                             _is_cached_valid, _code_size, _code_location, _hash_value,
                             setup>>
         ELSE Raises("exec_run")
    /\ UNCHANGED envVars

\* Archive strategy: container.get_archive and the write of function.tar.
GetArchive ==
    /\ UNCHANGED auxVars
    /\ pc = "get_archive"
    /\ \E ok \in BOOLEAN :
         IF ok THEN Goes("", "unpack") /\ Keeps ELSE Raises("get_archive")
    /\ UNCHANGED envVars

\* Archive strategy: extractall, the move of function/* one level up, rmtree.
Unpack ==
    /\ UNCHANGED auxVars
    /\ pc = "unpack"
    /\ \E ok \in BOOLEAN :
         IF ok
         THEN /\ outDir' = IF exit_code = "zero" THEN Put(outDir, "deps", DepsBytes)
                           ELSE outDir
              /\ Goes("", "stop")
              /\ Keeps
         ELSE /\ outDir' = outDir
              /\ Raises("unpack")
    /\ UNCHANGED <<srcTree, edits, cache, imageLocal, containers, language>>

\* Archive strategy: container.stop(), the last statement of the branch.
Stop ==
    /\ UNCHANGED auxVars
    /\ pc = "stop"
    /\ containers' = containers - 1
    /\ Goes("", "deployment_build_step")
    /\ Keeps
    /\ UNCHANGED <<srcTree, edits, cache, outDir, imageLocal, language>>

\* ------------------------------------------- callback, cache write, re-query
\* The deployment-build callback of the deployment, a function of its
\* arguments: for a function it returns the scratch directory it was given
\* (an absolute path), for a workflow the archive it made of it, as a path
\* relative to the working directory.
CallbackLocation(directory, workflow) ==
    IF workflow THEN Path(FALSE, <<"bench.zip">>) ELSE directory

CallbackSize(directory, workflow) == IF workflow THEN 2 ELSE 3

\* self._code_location, self._code_size = deployment_build_step(...), and the
\* read of self.hash for the log line that follows.
DeploymentBuildStep ==
    /\ UNCHANGED auxVars
    /\ pc = "deployment_build_step"
    /\ \E ok \in BOOLEAN :
         IF ok
         THEN /\ _code_location' = CallbackLocation(output_dir, is_workflow)
              /\ _code_size' = CallbackSize(output_dir, is_workflow)
              /\ _hash_value' = hash(srcTree, language)
              /\ Goes("deployment_build_step", "cache_write")
              /\ UNCHANGED <<update_code, copy_flag, is_workflow, _payload, _is_cached,
                             _is_cached_valid, setup, exit_code>>
         ELSE Raises("deployment_build_step")
    /\ UNCHANGED envVars

\* A cache write that always adds.
WritesUpdate_never(cached) == FALSE

\* "package already exists": update_code_package if self.is_cached, else
\* add_code_package.
WritesUpdate(cached) == cached

\* The cache write.  The cache stores serialize() = {size, hash}, whose hash
\* is read (recomputed) now, and a location for the package.
CacheWrite ==
    /\ UNCHANGED auxVars
    /\ pc = "cache_write"
    /\ _hash_value' = hash(srcTree, language)
    /\ LET location == CachedLocation(code_location(_payload, _code_location))
       IN  cache' = IF WritesUpdate(_is_cached)
                    THEN update_code_package(cache, CacheKey(language),
                                             hash(srcTree, language), _code_size, location)
                    ELSE add_code_package(cache, CacheKey(language),
                                          hash(srcTree, language), _code_size, location)
    /\ Goes(IF WritesUpdate(_is_cached) THEN "update_code_package" ELSE "add_code_package",
            "query_cache")
    /\ UNCHANGED <<srcTree, edits, outDir, imageLocal, containers, language>>
    /\ UNCHANGED <<update_code, copy_flag, is_workflow, _payload, _is_cached,
                   _is_cached_valid, _code_size, _code_location, setup, exit_code>>

\* self.query_cache() and return True, self._code_location.
Requery ==
    /\ UNCHANGED auxVars
    /\ pc = "query_cache"
    /\ LET q == query_cache(cache, srcTree, language,
                            [hash_value |-> _hash_value, code_size |-> _code_size,
                             is_cached |-> _is_cached, is_cached_valid |-> _is_cached_valid])
       IN  /\ _payload' = q.payload
           /\ _hash_value' = q.hash_value
           /\ _code_size' = q.code_size
           /\ _is_cached' = q.is_cached
           /\ _is_cached_valid' = q.is_cached_valid
           /\ ret' = IF q.raises THEN Raised(startEdits, ErrorClass("KeyError"), FALSE)
                     ELSE Returned(TRUE, _code_location, startEdits)
    /\ trace' = <<>>
    /\ pc' = "idle"
    /\ lastRebuild' = [location |-> _code_location, edits0 |-> startEdits,
                       miss |-> ~_is_cached, forced |-> update_code]
    /\ is_workflow' = FALSE
    /\ setup' = "none"
    /\ exit_code' = "none"
    /\ startCache' = {}
    /\ UNCHANGED <<envVars, update_code, copy_flag, _code_location, builds, fresh,
                   startEdits>>

\* ------------------------------------------------------------ specification
Next ==
    \/ EditSource
    \/ Construct
    \/ ConstructFlag
    \/ BuildStart
    \/ CopyCode
    \/ AddBenchmarkData
    \/ AddDeploymentFiles
    \/ AddDeploymentPackage
    \/ InstallImage
    \/ InstallRun
    \/ PutArchive
    \/ ExecRun
    \/ GetArchive
    \/ Unpack
    \/ Stop
    \/ DeploymentBuildStep
    \/ CacheWrite
    \/ Requery

Spec == Init /\ [][Next]_vars

\* ------------------------------------------------------------------ claims
\* The entry the cache holds for the key of the package.
Stored == get_code_package(cache, CacheKey(language))

\* The last build() call was made on this CodePackage and returned.
HasReturned == ~fresh /\ pc = "idle" /\ ret # None /\ ret.kind = "return"

C3_ForcedIsStale == (pc = "idle" /\ update_code) => ~_is_cached_valid

\* C4 as claimed: whenever the fresh digest differs from the hash stored in
\* the cache entry, the package is not valid when build() can be called.
C4_StaleWheneverChanged ==
    (pc = "idle" /\ Stored # None /\ Stored.hash # hash(srcTree, language))
    => ~BuildSkips(_is_cached, _is_cached_valid)

\* C4 as amended: ... provided the digest that the package computed at its
\* last cache query is still the fresh digest, i.e. the change came before
\* that query.
C4_StaleWhenChangedBeforeQuery ==
    ( /\ pc = "idle"
      /\ Stored # None
      /\ Stored.hash # hash(srcTree, language)
      /\ _payload # None
      /\ _hash_value = hash(srcTree, language) )
    => ~BuildSkips(_is_cached, _is_cached_valid)

C4_Witness ==
    /\ pc = "idle"
    /\ edits > 0
    /\ Stored # None
    /\ Stored.hash = hash_directory([srcTree EXCEPT ![SourceFile(language)] = <<1>>],
                                    Deployment, language)
    /\ Stored.hash # hash(srcTree, language)
    /\ _payload # None
    /\ _hash_value = hash(srcTree, language)
    /\ ~_is_cached_valid

\* The positions of build() inside a rebuild.
RebuildPositions ==
    {"copy_code", "add_benchmark_data", "add_deployment_files", "add_deployment_package",
     "install_dependencies", "install_run", "put_archive", "exec_run", "get_archive",
     "unpack", "stop", "deployment_build_step", "cache_write", "query_cache"}

\* The positions of the archive strategy at which its container is running.
ArchivePositions == {"put_archive", "exec_run", "get_archive", "unpack", "stop"}

\* The positions of build() after add_benchmark_data.
AfterSetupPositions == RebuildPositions \ {"copy_code", "add_benchmark_data"}

\* This step is build() raising an error to its caller.
RaiseStep == pc \in RebuildPositions /\ pc' = "idle" /\ ret'.kind = "raise"

\* A CodePackage constructed after a build() call failed, ready for build().
FreshAfterFailure == pc = "idle" /\ fresh /\ ret # None /\ ret.kind = "raise"

\* C5 as claimed: after a failed build() the cache holds no valid entry for
\* the key, and a freshly constructed CodePackage is classified as a miss.
C5_FailedBuildLeavesMiss ==
    FreshAfterFailure
    => ( /\ ~_is_cached
         /\ (Stored = None \/ Stored.hash # hash(srcTree, language)) )

\* C5 as amended: a failed build() has written nothing to the cache, which
\* is as it was when the call began; a freshly constructed CodePackage is
\* classified as cached exactly when the cache holds an entry for the key,
\* and takes the cached return only if that entry holds the hash the
\* package computed and the force-rebuild flag is off.
C5_FailedBuildWritesNothing ==
    /\ [][RaiseStep => cache' = startCache]_vars
    /\ [](FreshAfterFailure
          => ( /\ _is_cached = (Stored # None)
               /\ BuildSkips(_is_cached, _is_cached_valid)
                  => (Stored # None /\ Stored.hash = _hash_value /\ ~update_code) ))

C5_Witness ==
    /\ FreshAfterFailure
    /\ _is_cached
    /\ ~_is_cached_valid
    /\ ~update_code

\* C6: every cache query (in __init__ and at the end of a rebuild) leaves
\* is_cached true iff the cache holds an entry for the key, and
\* is_cached_valid true iff it does and the entry's hash is the fresh hash;
\* with no entry no hash is computed: the hash attribute stays as it was.
C6_QueryClassifies ==
    [][ (pc' = "init_flag" \/ (pc = "query_cache" /\ pc' = "idle"))
        => ( /\ _is_cached' = (Stored' # None)
             /\ _is_cached_valid' =
                  (Stored' # None /\ Stored'.hash = hash(srcTree', language'))
             /\ Stored' = None
                => _hash_value' = (IF pc = "query_cache" THEN _hash_value ELSE None) ) ]_vars

C6_Witness ==
    /\ pc = "init_flag"
    /\ edits > 0
    /\ _is_cached
    /\ ~_is_cached_valid

\* The entries of trace that are writes to the cache.
CacheWrites(tr) ==
    {i \in DOMAIN tr : tr[i] \in {"add_code_package", "update_code_package"}}

\* C7: the cache holds at most one entry per key; no step removes the entry
\* of a key or changes the entries of another key; the cache changes only in
\* the cache write of a rebuild, which is an add if the cache held no entry
\* for the key when build() began and an update otherwise; a rebuild that
\* reaches its re-query has written exactly once.
C7_OneWritePerRebuild ==
    /\ [](\A e1 \in cache : \A e2 \in cache : e1.key = e2.key => e1 = e2)
    /\ [][ /\ \A e \in cache : \E f \in cache' : f.key = e.key
           /\ \A e \in cache : e.key # CacheKey(language) => e \in cache'
           /\ ~(pc = "cache_write" /\ pc' = "query_cache") => cache' = cache
           /\ (pc = "cache_write" /\ pc' = "query_cache")
              => trace' = Append(trace, IF EntriesOf(startCache, CacheKey(language)) = {}
                                        THEN "add_code_package"
                                        ELSE "update_code_package") ]_vars
    /\ [](pc = "query_cache" => Cardinality(CacheWrites(trace)) = 1)

C7_Witness ==
    /\ pc = "query_cache"
    /\ trace[Len(trace)] = "update_code_package"
    /\ EntriesOf(startCache, CacheKey(language)) # EntriesOf(cache, CacheKey(language))
    /\ Cardinality(cache) = 2

\* C8 as claimed: under the archive strategy, once the install script has
\* ended with a non-zero status, install_dependencies does not return or
\* raise without having stopped the container.
C8_FailedInstallStopsContainer ==
    [][ (exit_code = "nonzero" /\ pc \in ArchivePositions /\ pc' \notin ArchivePositions)
        => containers' = containers - 1 ]_vars

\* C9 as claimed: no detached build container is running when the
\* CodePackage is outside the archive steps of install_dependencies.
C9_ContainerStoppedOnEveryExit == pc \notin ArchivePositions => containers = 0

\* C10 as claimed: once a setup script has ended with a non-zero status, no
\* later step of build() is reached.
C10_SetupFailureAborts == setup = "nonzero" => pc \notin AfterSetupPositions

\* The positions of build() after install_dependencies.
AfterInstallPositions == {"deployment_build_step", "cache_write", "query_cache"}

\* C11 as claimed: once the install script has ended with a non-zero status,
\* build() does not go on to the deployment-build callback or the cache write.
C11_FailedInstallAborts == exit_code = "nonzero" => pc \notin AfterInstallPositions

\* The conventional entry-point filename of a language, and the names of the
\* function and workflow variants of its wrapper.
EntryPoint(lang) == IF lang = "python" THEN "handler.py" ELSE "handler.js"

WrapperVariants(lang) ==
    IF lang = "python" THEN {"handler_function.py", "handler_workflow.py"}
    ELSE {"handler_function.js", "handler_workflow.js"}

C15_NoManifestNoOp ==
    [][ ( /\ pc \in {"install_dependencies", "install_run"}
          /\ pc' # pc
          /\ PACKAGE_FILES(language) \notin DOMAIN outDir )
        => ( /\ pc' \in {"install_run", "deployment_build_step"}
             /\ containers' = containers
             /\ outDir' = outDir ) ]_vars

\* The pulls of the build image that a trace records.
PullsIn(tr) == {i \in DOMAIN tr : tr[i] = "pull"}

\* C16: the image step of install_dependencies pulls nothing and cannot fail
\* when the image is present locally; when it is not, it pulls once and goes
\* on with the image present, or the one pull fails and build() raises with
\* no container started and the cache as it was when build() began.  No other
\* step pulls, a build() call pulls at most once, and a container runs only
\* with the image present.
C16_PullsOnce ==
    /\ [][ (pc = "install_dependencies" /\ pc' # pc)
           => ( /\ imageLocal => (pc' # "idle" /\ imageLocal' /\ PullsIn(trace') = {})
                /\ (~imageLocal /\ pc' = "install_run")
                   => (imageLocal' /\ Cardinality(PullsIn(trace')) = 1)
                /\ pc' = "idle"
                   => ( /\ ~imageLocal /\ ~imageLocal'
                        /\ ret'.kind = "raise"
                        /\ containers' = containers
                        /\ cache' = startCache ) ) ]_vars
    /\ [][ pc # "install_dependencies" => PullsIn(trace') \subseteq PullsIn(trace) ]_vars
    /\ [](Cardinality(PullsIn(trace)) <= 1)
    /\ [](pc \in ArchivePositions => imageLocal)

C16_Witness ==
    /\ pc = "install_run"
    /\ builds = 2
    /\ imageLocal
    /\ PullsIn(trace) = {}

\* C17 as claimed: when the install script fails in the container (the mount
\* strategy's run raises ContainerError, the archive strategy's exec_run
\* returns a non-zero status), build() raises that container error, after
\* install_dependencies reported the mount volumes.
C17_ContainerErrorReachesCaller ==
    [][ ( \/ pc = "exec_run" /\ exit_code' = "nonzero"
          \/ pc = "install_run" /\ pc' = "idle" /\ ret'.error = "ContainerError" )
        => ( /\ pc' = "idle"
             /\ ret'.kind = "raise"
             /\ ret'.error = "ContainerError"
             /\ ret'.reported ) ]_vars

\* C20 as claimed: with a cache entry that lacks the hash field, the cache
\* query of __init__ raises no error and the package is not cached.
C20_MalformedIsMiss ==
    (pc # "none" /\ Stored # None /\ Stored.hash = Missing)
    => (pc # "init_error" /\ ~_is_cached)

\* The calls that build() makes in a rebuild, in the order of its statements;
\* written is the cache write it makes.  The re-query that follows is the
\* step that leaves position "query_cache".
PipelineOrder(written) ==
    <<"rmtree_makedirs", "copy_code", "add_benchmark_data", "add_deployment_files",
      "add_deployment_package", "install_dependencies", "deployment_build_step", written>>

\* The calls of build() that a trace records, without the pull of the image
\* made inside install_dependencies.
StepsOf(tr) == SelectSeq(tr, LAMBDA step : step # "pull")

\* The number of calls build() has made when it is at a position.
StepsDoneAt(position) ==
    CASE position = "copy_code" -> 1
      [] position = "add_benchmark_data" -> 2
      [] position = "add_deployment_files" -> 3
      [] position = "add_deployment_package" -> 4
      [] position = "install_dependencies" -> 5
      [] position \in {"install_run", "deployment_build_step"} \cup ArchivePositions -> 6
      [] position = "cache_write" -> 7
      [] position = "query_cache" -> 8

\* tr is the beginning of one of the two orders of a rebuild.
InPipelineOrder(tr) ==
    \E written \in {"add_code_package", "update_code_package"} :
        tr = SubSeq(PipelineOrder(written), 1, Len(tr))

\* C21: at every position of a rebuild, the calls build() has made so far are
\* the first calls of the order wipe, source copy, setup scripts, wrapper
\* files, manifest merge, dependency install, callback, cache write, each
\* once, as many as the position tells, and the re-query follows the cache
\* write; the cache changes only when the callback is among the calls made;
\* and the scratch directory is empty when the source copy starts, whatever
\* it held when build() was called.
C21_PipelineOrder ==
    /\ [](pc \in RebuildPositions
          => ( /\ Len(StepsOf(trace)) = StepsDoneAt(pc)
               /\ InPipelineOrder(StepsOf(trace)) ))
    /\ [](pc \notin RebuildPositions => trace = <<>>)
    /\ [][ cache' # cache
           => ( /\ pc = "cache_write"
                /\ StepsOf(trace)[Len(StepsOf(trace))] = "deployment_build_step" ) ]_vars
    /\ [][ (pc = "query_cache" /\ pc' = "idle")
           => StepsOf(trace)[Len(StepsOf(trace))]
                \in {"add_code_package", "update_code_package"} ]_vars
    /\ [][ pc' \in RebuildPositions
           => (pc = "idle" /\ pc' = "copy_code") \/ pc \in RebuildPositions ]_vars
    /\ [](pc = "copy_code" => outDir = <<>>)

\* A second rebuild is at its source copy after the first left files in the
\* scratch directory.
C21_Witness ==
    /\ pc = "copy_code"
    /\ builds = 2
    /\ lastRebuild # None
    /\ outDir = <<>>
    /\ trace = <<"rmtree_makedirs">>

\* The last build() call was a rebuild that returned: the scratch directory
\* holds the artifact it built and the cache the entry it wrote.
RebuiltArtifact == pc = "idle" /\ ret # None /\ ret.kind = "return" /\ ret.rebuilt

\* The source tree as the artifact in the scratch directory was built from
\* it: the file that changes holds the contents copy_code copied.
ArtifactSources ==
    [f \in DOMAIN srcTree |->
        IF f \in EditedFiles(language) /\ f \in DOMAIN outDir THEN outDir[f] ELSE srcTree[f]]

\* C22 as claimed: after a rebuild, a package (the one that rebuilt, or one
\* constructed afterwards) is classified as valid only if the hash in the
\* cache entry is the hash of the sources that were copied into the artifact,
\* also when a source file changed between the source copy and the cache
\* write.
C22_ValidEntryIsOfCopiedSources ==
    (RebuiltArtifact /\ _is_cached_valid)
    => ( /\ Stored # None
         /\ Stored.hash = hash_directory(ArtifactSources, Deployment, language) )

\* This step is a call of query_cache: the one of __init__, which goes on to
\* the force-rebuild flag or leaves __init__ with an error, or the re-query
\* that ends a rebuild.
QueryStep ==
    \/ pc \in {"none", "idle"} /\ pc' \in {"init_flag", "init_error"}
    \/ pc = "query_cache" /\ pc' = "idle"

\* C23: in every state is_cached_valid implies is_cached; every cache query
\* leaves is_cached true only with the payload it fetched present, and
\* is_cached changes in no other step, not in the force-rebuild flag of
\* __init__ nor in a build() that clears the payload, with or without the
\* flag; a package on which build() has not been called is cached only with
\* its payload present.
C23_ValidImpliesCached ==
    /\ [](_is_cached_valid => _is_cached)
    /\ [][QueryStep => (_is_cached' => _payload' # None)]_vars
    /\ [][~QueryStep => _is_cached' = _is_cached]_vars
    /\ []((pc \in {"init_flag", "idle"} /\ fresh /\ _is_cached) => _payload # None)

\* A forced rebuild of a cached package has failed: the payload was cleared
\* and is_cached still tells of the payload of the query in __init__.
C23_Witness ==
    /\ pc = "idle"
    /\ ret # None
    /\ ret.kind = "raise"
    /\ ~fresh
    /\ update_code
    /\ _is_cached
    /\ ~_is_cached_valid
    /\ _payload = None
    /\ Stored # None
    /\ Stored.hash = hash(srcTree, language)

\* ------------------------------------------------------------- _update_zip
\* A CodePackage that is not the subject of the specification at hand: no
\* package has been constructed and nothing has been built.
BuildAtRest ==
    /\ srcTree = <<>>
    /\ edits = 0
    /\ cache = {}
    /\ outDir = None
    /\ imageLocal = FALSE
    /\ containers = 0
    /\ pc = "none"
    /\ update_code = FALSE
    /\ copy_flag = FALSE
    /\ is_workflow = FALSE
    /\ _payload = None
    /\ _is_cached = FALSE
    /\ _is_cached_valid = FALSE
    /\ _code_size = None
    /\ _code_location = None
    /\ _hash_value = None
    /\ setup = "none"
    /\ exit_code = "none"
    /\ builds = 0
    /\ fresh = TRUE
    /\ trace = <<>>
    /\ startEdits = 0
    /\ startCache = {}
    /\ ret = None
    /\ lastRebuild = None

\* The archives a run starts from hold at most MaxEntries entries.
MaxEntries == 3

ZipNames == {"function.py", "input.json"}

ZipData == {<<1>>, <<2>>}

\* An entry of a zip archive.  An archive is the sequence of its entries, as
\* infolist() lists them; a file name may occur more than once.
ZipEntry(filename, data) == [filename |-> filename, data |-> data]

ZipEntries == {ZipEntry(filename, data) : filename \in ZipNames, data \in ZipData}

Archives == UNION {[1..n -> ZipEntries] : n \in 0..MaxEntries}

\* The places of the entries of zf that are named filename.
EntriesNamed(zf, filename) == {i \in DOMAIN zf : zf[i].filename = filename}

\* ZipFile.read(filename): the data of the entry that the archive's directory
\* of names holds for filename, the last entry of that name.
ZipRead(zf, filename) ==
    LET i == CHOOSE k \in EntriesNamed(zf, filename) :
                 \A j \in EntriesNamed(zf, filename) : j <= k
    IN  zf[i].data

\* An _update_zip whose filter keeps the entries of the name instead of
\* dropping them.
_update_zip_inverted(zin, filename, data) ==
    LET Same(item) == item.filename = filename
        kept == SelectSeq(zin, Same)
        zout == [i \in DOMAIN kept |->
                    ZipEntry(kept[i].filename, ZipRead(zin, kept[i].filename))]
    IN  Append(zout, ZipEntry(filename, data))

\* An _update_zip that appends the entry without the copy that drops the old
\* entries of the name.
_update_zip_append(zin, filename, data) == Append(zin, ZipEntry(filename, data))

\* _update_zip(zipname, filename, data) on the archive zin: the temporary
\* archive zout gets, for every item of another name, an entry under that
\* item with the data that zin.read(item.filename) returns; it replaces the
\* archive, and the entry (filename, data) is appended to it.
_update_zip(zin, filename, data) ==
    LET Other(item) == item.filename # filename
        kept == SelectSeq(zin, Other)
        zout == [i \in DOMAIN kept |->
                    ZipEntry(kept[i].filename, ZipRead(zin, kept[i].filename))]
    IN  Append(zout, ZipEntry(filename, data))

ZipInit ==
    /\ archive \in Archives
    /\ original = None
    /\ patched = None
    /\ language = "python"
    /\ BuildAtRest /\ HashAtRest /\ ParAtRest

\* code_package_modify's call of _update_zip on an archive within the bound.
UpdateZip ==
    /\ Len(archive) <= MaxEntries
    /\ \E filename \in ZipNames, data \in ZipData :
          /\ archive' = _update_zip(archive, filename, data)
          /\ patched' = ZipEntry(filename, data)
    /\ original' = archive
    /\ UNCHANGED <<buildVars, hashVars, parVars>>

ZipNext == UpdateZip

ZipSpec == ZipInit /\ [][ZipNext]_vars

\* The file names of an archive, as a set and in the order of its entries.
Filenames(zf) == {zf[i].filename : i \in DOMAIN zf}

NamesInOrder(zf) == [i \in DOMAIN zf |-> zf[i].filename]

\* The entries of zf with another name than filename, in order.
OtherEntries(zf, filename) ==
    LET Other(item) == item.filename # filename
    IN  SelectSeq(zf, Other)

\* Reading the patched archive yields the new data under the patched name and,
\* under every other name, what reading the original yielded.
ReadsAsPatched ==
    /\ ZipRead(archive, patched.filename) = patched.data
    /\ Filenames(archive) = Filenames(original) \cup {patched.filename}
    /\ \A n \in Filenames(original) \ {patched.filename} :
          ZipRead(archive, n) = ZipRead(original, n)

\* C13 as claimed: after a patch the archive reads as patched and has as many
\* entries as before.
C13_PatchRoundTrip ==
    patched # None => (ReadsAsPatched /\ Len(archive) = Len(original))

\* C13 as amended: after a patch the archive reads as patched; its number of
\* entries is that of the original's entries of other names plus one, which
\* is the number before the patch exactly when the original held one entry of
\* the patched name.
C13_PatchRoundTripOfOneEntry ==
    patched # None
    => ( /\ ReadsAsPatched
         /\ Len(archive) = Len(OtherEntries(original, patched.filename)) + 1
         /\ (Len(archive) = Len(original))
            = (Cardinality(EntriesNamed(original, patched.filename)) = 1) )

C13_Witness ==
    /\ patched # None
    /\ EntriesNamed(original, patched.filename) = {}
    /\ Len(original) = 2
    /\ Len(archive) = 3

\* C14: after a patch the archive holds exactly one entry of the patched
\* name, and the entries of other names are named, in order, as the entries
\* of other names of the original.
C14_OneEntryOthersInOrder ==
    patched # None
    => ( /\ Cardinality(EntriesNamed(archive, patched.filename)) = 1
         /\ NamesInOrder(OtherEntries(archive, patched.filename))
            = NamesInOrder(OtherEntries(original, patched.filename)) )

C14_Witness ==
    /\ patched # None
    /\ Cardinality(EntriesNamed(original, patched.filename)) = 2
    /\ Len(original) = 3
    /\ Cardinality(EntriesNamed(archive, patched.filename)) = 1

\* ---------------------------------------- hash_directory on a changing tree
\* The files of the directory that hash_directory reads for a language: two
\* source files, the dependency manifest, a script, and the workflow
\* definition one level up.
HashedNames(lang) ==
    IF lang = "python" THEN {"function.py", "other.py", "requirements.txt", "init.sh", Definition}
    ELSE {"function.js", "other.js", "package.json", "init.sh", Definition}

\* What a hashed file may hold: nothing, or one byte.
HashedContents == Contents \cup {<<>>}

\* The directories a run starts from: any of the files, with any contents.
HashedDirs(lang) ==
    UNION {[S -> HashedContents] : S \in SUBSET HashedNames(lang)}

\* The two calls of hash_directory, before and after a change.
Digests(dirBefore, dirAfter) ==
    [before |-> hash_directory(dirBefore, Deployment, language),
     after |-> hash_directory(dirAfter, Deployment, language)]

HashInit ==
    /\ language \in Languages
    /\ hashedDir \in HashedDirs(language)
    /\ changed = None
    /\ digest = None
    /\ BuildAtRest /\ ZipAtRest /\ ParAtRest

\* The directory after a change of the given kind, with the two digests.  A
\* run makes one change.
Changes(kind, dirAfter) ==
    /\ hashedDir' = dirAfter
    /\ changed' = [kind |-> kind, before |-> hashedDir]
    /\ digest' = Digests(hashedDir, dirAfter)
    /\ UNCHANGED <<buildVars, zipVars, parVars>>

\* hash_directory is called twice on the unchanged directory.
Rehash ==
    /\ changed = None
    /\ Changes("none", hashedDir)

\* A byte of a hashed file changes.
ChangeByte ==
    /\ changed = None
    /\ \E f \in DOMAIN hashedDir : \E b \in HashedContents :
          /\ Len(b) = Len(hashedDir[f])
          /\ b # hashedDir[f]
          /\ Changes("byte", [hashedDir EXCEPT ![f] = b])

\* A hashed file is deleted.
DeleteFile ==
    /\ changed = None
    /\ \E f \in DOMAIN hashedDir :
          Changes("delete", [g \in DOMAIN hashedDir \ {f} |-> hashedDir[g]])

\* A hashed file is renamed to a name of the hashed set that is free.
RenameFile ==
    /\ changed = None
    /\ \E f \in DOMAIN hashedDir : \E n \in HashedNames(language) \ DOMAIN hashedDir :
          Changes("rename", [g \in (DOMAIN hashedDir \ {f}) \cup {n} |->
                                IF g = n THEN hashedDir[f] ELSE hashedDir[g]])

HashNext ==
    \/ Rehash
    \/ ChangeByte
    \/ DeleteFile
    \/ RenameFile

HashSpec == HashInit /\ [][HashNext]_vars

\* C19 as claimed: the digest is the same for the unchanged directory, and
\* another one after a byte of a hashed file changed or a hashed file was
\* deleted or renamed.
C19_DigestTellsChange ==
    changed # None
    => IF changed.kind = "none" THEN digest.after = digest.before
       ELSE digest.after # digest.before

\* ------------------------------------------------ two builds side by side
\* Two CodePackages with different benchmark names, constructed with the same
\* output_dir, whose rebuilds run side by side, step by step.
Benchmarks == {"A", "B"}

\* The output_dir both packages are constructed with.
BaseOutputDir == <<"out">>

\* f"{name}_code"
CodeDirName(name) == IF name = "A" THEN "A_code" ELSE "B_code"

\* self._output_dir = os.path.join(output_dir, f"{name}_code")
ScratchDir(name) == Append(BaseOutputDir, CodeDirName(name))

\* os.path.pardir
pardir == ".."

\* tar_archive = os.path.join(output_dir, os.path.pardir, "function.tar"),
\* output_dir being the scratch directory of the package.
TarArchive(name) == ScratchDir(name) \o <<pardir, "function.tar">>

\* The benchmark's language directory, and the deployment's wrapper directory.
CodeDir(name) == <<"benchmarks", name, language>>

WrapperDir == <<"benchmarks", "wrappers", Deployment, language>>

RECURSIVE Resolve(_)
\* The file that the file system finds under a path: a component followed by
\* the parent directory leads back to where it began.
Resolve(parts) ==
    IF Len(parts) = 0 THEN <<>>
    ELSE LET front == Resolve(SubSeq(parts, 1, Len(parts) - 1))
             last == parts[Len(parts)]
         IN  IF last = pardir /\ Len(front) > 0
             THEN SubSeq(front, 1, Len(front) - 1)
             ELSE Append(front, last)

Reads(parts) == [file |-> Resolve(parts), mode |-> "r"]

Writes(parts) == [file |-> Resolve(parts), mode |-> "w"]

ParInit ==
    /\ language \in Languages
    /\ bpc = [b \in Benchmarks |-> "none"]
    /\ accesses = [b \in Benchmarks |-> {}]
    /\ cacheKeys = [b \in Benchmarks |-> {}]
    /\ strategy \in [Benchmarks -> BOOLEAN]
    /\ BuildAtRest /\ ZipAtRest /\ HashAtRest

\* The build of benchmark b touches the files in acc and the cache keys in
\* keys, and goes to position to.
ParStep(b, to, acc, keys) ==
    /\ bpc' = [bpc EXCEPT ![b] = to]
    /\ accesses' = [accesses EXCEPT ![b] = @ \cup acc]
    /\ cacheKeys' = [cacheKeys EXCEPT ![b] = @ \cup keys]
    /\ UNCHANGED <<strategy, buildVars, zipVars, hashVars>>

\* __init__: query_cache, with hash_directory reading the benchmark's
\* directory and the wrappers.
ParConstruct(b) ==
    /\ bpc[b] = "none"
    /\ ParStep(b, "idle", {Reads(CodeDir(b)), Reads(WrapperDir)},
               {<<Deployment, b, language>>})

\* build(): the scratch directory is deleted and recreated, and filled by
\* copy_code, add_benchmark_data, add_deployment_files, add_deployment_package.
ParAssemble(b) ==
    /\ bpc[b] = "idle"
    /\ ParStep(b, "install_run",
               {Writes(ScratchDir(b)), Reads(CodeDir(b)), Reads(WrapperDir)}, {})

\* Mount strategy: the container works on the scratch directory, mounted rw.
ParMountRun(b) ==
    /\ bpc[b] = "install_run"
    /\ ~strategy[b]
    /\ ParStep(b, "deployment_build_step",
               {Reads(ScratchDir(b)), Writes(ScratchDir(b))}, {})

\* Archive strategy: tarfile.open(tar_archive, "w") packs the scratch directory.
ParPack(b) ==
    /\ bpc[b] = "install_run"
    /\ strategy[b]
    /\ ParStep(b, "put_archive",
               {Reads(ScratchDir(b)), Writes(TarArchive(b))}, {})

\* open(tar_archive, "rb") and container.put_archive, then exec_run.
ParPutArchive(b) ==
    /\ bpc[b] = "put_archive"
    /\ ParStep(b, "get_archive", {Reads(TarArchive(b))}, {})

\* container.get_archive into open(tar_archive, "wb").
ParGetArchive(b) ==
    /\ bpc[b] = "get_archive"
    /\ ParStep(b, "unpack", {Writes(TarArchive(b))}, {})

\* tarfile.open(tar_archive, "r"), extractall(output_dir) and the moves.
ParUnpack(b) ==
    /\ bpc[b] = "unpack"
    /\ ParStep(b, "deployment_build_step",
               {Reads(TarArchive(b)), Writes(ScratchDir(b))}, {})

\* The callback on the scratch directory, the cache write and the re-query.
ParFinish(b) ==
    /\ bpc[b] = "deployment_build_step"
    /\ ParStep(b, "built", {Reads(ScratchDir(b))}, {<<Deployment, b, language>>})

ParNext ==
    \E b \in Benchmarks :
        \/ ParConstruct(b)
        \/ ParAssemble(b)
        \/ ParMountRun(b)
        \/ ParPack(b)
        \/ ParPutArchive(b)
        \/ ParGetArchive(b)
        \/ ParUnpack(b)
        \/ ParFinish(b)

ParSpec == ParInit /\ [][ParNext]_vars

\* C18 as claimed, in its weaker reading: the builds of two benchmarks use no
\* common cache key and touch no common file that either of them writes (a
\* file that both only read is let pass).
C18_NoCommonPath ==
    \A a \in Benchmarks : \A b \in Benchmarks \ {a} :
        /\ cacheKeys[a] \cap cacheKeys[b] = {}
        /\ \A x \in accesses[a] : \A y \in accesses[b] :
              x.file = y.file => (x.mode = "r" /\ y.mode = "r")

====
